---- MODULE Spec2Model ----
(***************************************************************************)
(* Model of f_okno_monitor_selenium.py: one monitoring run per process     *)
(* invocation (parse the page, compare with the snapshot in STATE_FILE,    *)
(* send a Telegram message, save the snapshot), invoked again and again by *)
(* an external scheduler.                                                  *)
(*                                                                         *)
(* Text is modelled as a sequence of tokens.  A token is a piece of text   *)
(* that the program never looks inside of: the Russian phrases the parser  *)
(* searches for are spelled in Latin letters and split where one phrase is *)
(* a substring of another:                                                 *)
(*    "Est_mesta"                   Есть места                             *)
(*    "Zapisatsya"                  Записаться                             *)
(*    "Svobodn"                     Свободн                                *)
(*    "Svobodn" "yh_" "mest_net"    Свободных мест нет                     *)
(*    "mest_net"                    мест нет                               *)
(*    "Svobodn" "o"                 Свободно                               *)
(*    " "  "\n"                     white space                            *)
(* Python's `m in t`, t.replace(m, "") and t.strip() are computed on the   *)
(* token sequences.                                                        *)
(***************************************************************************)
EXTENDS Naturals, Sequences, FiniteSets, TLC

VARIABLES
    pc,          \* position of the process in __main__ / one_check_run
    env,         \* module-level configuration read from the environment
    stateFile,   \* STATE_FILE on disk: [exists, content]
    driver,      \* the Chrome driver of this run: "none", "open", "quit"
    html,        \* driver.page_source of this run
    slots,       \* parse_slots_from_html(html)
    has_free,    \* any(s["status"] == "Свободно" for s in slots)
    snapshot,    \* json.dumps(slots, ensure_ascii=False, sort_keys=True)
    last,        \* load_last_snapshot()
    changed,     \* snapshot != last, once compared
    tg,          \* the send_tg call of this run: [called, outcome, text]
    exc,         \* the exception in flight: [raised, type, at]
    events,      \* what this run has done so far, in order
    exitCode,    \* the process's exit status: "running", "ok" (0), "error" (1)
    prev,        \* history: the previous invocation [exists, html, ended]
    hist         \* history: the recorded invocations, oldest first

vars == <<pc, env, stateFile, driver, html, slots, has_free, snapshot, last,
          changed, tg, exc, events, exitCode, prev, hist>>

-----------------------------------------------------------------------------
(* Text *)

WhiteSpace == {" ", "\n"}

\* Python: m in t
Contains(t, m) ==
    \E i \in 1..(Len(t) + 1) : i + Len(m) - 1 <= Len(t) /\ SubSeq(t, i, i + Len(m) - 1) = m

RECURSIVE Replace(_, _)
\* Python: t.replace(m, "") for a non-empty m
Replace(t, m) ==
    IF t = <<>> THEN <<>>
    ELSE IF Len(m) <= Len(t) /\ SubSeq(t, 1, Len(m)) = m
         THEN Replace(SubSeq(t, Len(m) + 1, Len(t)), m)
         ELSE <<Head(t)>> \o Replace(Tail(t), m)

RECURSIVE LStrip(_)
LStrip(t) == IF t # <<>> /\ Head(t) \in WhiteSpace THEN LStrip(Tail(t)) ELSE t

RECURSIVE RStrip(_)
RStrip(t) ==
    IF t # <<>> /\ t[Len(t)] \in WhiteSpace THEN RStrip(SubSeq(t, 1, Len(t) - 1)) ELSE t

\* Python: t.strip()
Strip(t) == RStrip(LStrip(t))

\* The phrases of the parser
EstMesta         == <<"Est_mesta">>
Zapisatsya       == <<"Zapisatsya">>
Svobodn          == <<"Svobodn">>
SvobodnyhMestNet == <<"Svobodn", "yh_", "mest_net">>
MestNet          == <<"mest_net">>

\* The two status values of a record
Svobodno == "Svobodno"
NetMest  == "Net_mest"

-----------------------------------------------------------------------------
(* parse_slots_from_html                                                   *)
(* A page is [day_nodes, text]: day_nodes holds, in document order, the    *)
(* n.get_text(" ", strip=True) of every node soup.select(...) matches, and *)
(* text is soup.get_text("\n", strip=True).                                *)

CardStatus(text) ==
    IF Contains(text, EstMesta) \/ Contains(text, Zapisatsya) \/ Contains(text, Svobodn)
    THEN Svobodno ELSE ""

Markers == <<EstMesta, SvobodnyhMestNet, MestNet, Zapisatsya>>

RECURSIVE StripMarkers(_, _)
StripMarkers(date_part, markers) ==
    IF markers = <<>> THEN date_part
    ELSE StripMarkers(Strip(Replace(date_part, Head(markers))), Tail(markers))

CardSlot(text) ==
    [date   |-> StripMarkers(text, Markers),
     status |-> IF CardStatus(text) # "" THEN CardStatus(text) ELSE NetMest]

RECURSIVE CardSlots(_)
CardSlots(day_nodes) ==
    IF day_nodes = <<>> THEN <<>>
    ELSE (IF Head(day_nodes) = <<>> THEN <<>> ELSE <<CardSlot(Head(day_nodes))>>)
         \o CardSlots(Tail(day_nodes))

FallbackSlot(text) ==
    [date   |-> <<>>,
     status |-> IF Contains(text, EstMesta) \/ Contains(text, Zapisatsya)
                THEN Svobodno ELSE NetMest]

\* (mutant) the fallback record is added when every matched node was skipped
parse_slots_from_html_FallbackWhenEmpty(page) ==
    IF CardSlots(page.day_nodes) # <<>> THEN CardSlots(page.day_nodes)
    ELSE <<FallbackSlot(page.text)>>

parse_slots_from_html(page) ==
    IF page.day_nodes # <<>> THEN CardSlots(page.day_nodes)
    ELSE <<FallbackSlot(page.text)>>

HasFree(s) == \E i \in 1..Len(s) : s[i].status = Svobodno

-----------------------------------------------------------------------------
(* json.dumps(slots, ensure_ascii=False, sort_keys=True): the keys of each *)
(* record in sorted order, the records separated by ", ".                  *)

DumpSlot(s) == <<"{", "\"date\": ", "\"">> \o s.date \o <<"\"", ", ", "\"status\": ", s.status, "}">>

RECURSIVE DumpSlots(_)
DumpSlots(s) ==
    IF s = <<>> THEN <<>>
    ELSE IF Len(s) = 1 THEN DumpSlot(s[1])
    ELSE DumpSlot(s[1]) \o <<", ">> \o DumpSlots(Tail(s))

\* (mutant) an encoding that forgets the order: the free records first
json_dumps_FreeFirst(s) ==
    <<"[">> \o DumpSlots(SelectSeq(s, LAMBDA r : r.status = Svobodno)
                        \o SelectSeq(s, LAMBDA r : r.status # Svobodno)) \o <<"]">>

json_dumps(s) == <<"[">> \o DumpSlots(s) \o <<"]">>

-----------------------------------------------------------------------------
(* format_slots(slots, only_available=True): the lines of the message body *)

NoFreeDates == <<"Svobodnyh_dat_net.">>

\* (mutant) the label is the date even when it is blank
FormatLine_NoFallback(s) == <<"OK <b>">> \o Strip(s.date) \o <<"</b>">>

FormatLine(s) ==
    <<"OK <b>">> \o (IF Strip(s.date) # <<>> THEN Strip(s.date) ELSE <<Svobodno>>) \o <<"</b>">>

RECURSIVE JoinLines(_)
JoinLines(ls) ==
    IF ls = <<>> THEN <<>>
    ELSE IF Len(ls) = 1 THEN ls[1]
    ELSE ls[1] \o <<"\n">> \o JoinLines(Tail(ls))

format_slots(s, only_available) ==
    IF s = <<>> THEN NoFreeDates
    ELSE LET filtered == IF only_available
                         THEN SelectSeq(s, LAMBDA r : r.status = Svobodno)
                         ELSE s
         IN  IF filtered = <<>> THEN NoFreeDates
             ELSE JoinLines([i \in 1..Len(filtered) |-> FormatLine(filtered[i])])

-----------------------------------------------------------------------------
(* The State Store *)

NoFile == [exists |-> FALSE, content |-> <<>>]

\* (mutant) the file is never read
load_last_snapshot_NoRead(f) == <<>>

\* load_last_snapshot, when open() and read() do not fail
load_last_snapshot(f) == IF f.exists THEN f.content ELSE <<>>

\* (mutant) the file is opened for writing and nothing is written
save_snapshot_Truncate(s) == [exists |-> TRUE, content |-> <<>>]

\* save_snapshot, when open() and write() do not fail
save_snapshot(s) == [exists |-> TRUE, content |-> s]

\* What a failed save_snapshot can leave on disk: open() failed and the file is
\* as it was, or open() truncated the file and nothing, or only a beginning of
\* s, was written.  No proper prefix of a snapshot is a snapshot, so the
\* shortest non-empty one stands for them all.
FailedSave(f, s) ==
    {f} \cup {[exists |-> TRUE, content |-> SubSeq(s, 1, k)] : k \in {0, 1}}

-----------------------------------------------------------------------------
(* The pages the site may serve *)

MaxCards == 2

Free1 == <<"16 oct", " ", "Est_mesta">>
Busy2 == <<"17 oct", " ", "mest_net">>

CardTexts == {Free1, Busy2}

CardLists == UNION {[1..n -> CardTexts] : n \in 1..MaxCards}

Pages ==
    {[day_nodes |-> c, text |-> <<>>] : c \in CardLists}
    \cup {[day_nodes |-> <<>>, text |-> <<"Zapis", "\n", "Zapisatsya">>],
          [day_nodes |-> <<>>, text |-> <<"Zapis", "\n", "zakryta">>],
          [day_nodes |-> << <<>> >>, text |-> <<>>]}

NoPage == [day_nodes |-> <<>>, text |-> <<>>]

-----------------------------------------------------------------------------
(* Configuration, exceptions, history *)

\* TELEGRAM_TOKEN and TELEGRAM_CHAT_ID (creds: both are set),
\* ONLY_NOTIFY_WHEN_FREE and FAIL_ON_ERROR, as read when the process starts
Envs == [creds : BOOLEAN, ONLY_NOTIFY_WHEN_FREE : BOOLEAN, fail_on_error : BOOLEAN]

DefaultEnv == [creds |-> FALSE, ONLY_NOTIFY_WHEN_FREE |-> TRUE, fail_on_error |-> TRUE]

NoExc == [raised |-> FALSE, type |-> "", at |-> ""]

Raise(type, at) == [raised |-> TRUE, type |-> type, at |-> at]

NoTg == [called |-> FALSE, outcome |-> "", text |-> <<>>]

NoPrev == [exists |-> FALSE, html |-> NoPage, ended |-> ""]

Did(e) == \E i \in 1..Len(events) : events[i] = e

\* one_check_run raised into __main__
RunFailed == Did("main_reraise") \/ Did("main_suppressed")

-----------------------------------------------------------------------------
(* The decisions of one_check_run *)

\* (mutant) a missing state file counts as "nothing to compare with"
\* (mutant) a detector with a memory: a snapshot seen before is not a change
Changed_Unseen(s, l) ==
    s # l /\ \A i \in 1..Len(hist) : json_dumps(parse_slots_from_html(hist[i].html)) # s

Changed_IgnoreAbsent(s, l) == l # <<>> /\ s # l

\* line 242: if snapshot != last
Changed(s, l) == s # l

\* (mutant) the override is ignored
NotifyCond_FreeOnly(hf, only_when_free) == hf

\* line 243: if has_free or not ONLY_NOTIFY_WHEN_FREE
NotifyCond(hf, only_when_free) == hf \/ ~only_when_free

\* (mutant) save_snapshot indented into the inner if: saved only when sent
Branch_SaveOnlyIfSent(ch, notify) == IF ch /\ notify THEN "send_tg" ELSE "finally"

\* (mutant) save_snapshot dedented out of the outer if: saved in every run
Branch_AlwaysSave(ch, notify) == IF ch /\ notify THEN "send_tg" ELSE "save_snapshot"

\* lines 242-254: where the comparison takes the run
Branch(ch, notify) ==
    IF ch THEN (IF notify THEN "send_tg" ELSE "save_snapshot") ELSE "finally"

\* lines 244-249: the message text (the time stamp is left out)
Message(s) == <<"Poyavilis svobodnye sloty", "\n", "\n">>
              \o format_slots(s, TRUE)
              \o <<"\n", "\n", "Zapisatsya tut">>

\* send_tg, lines 83-98: what the call can come to, given the credentials
SendOutcomes(creds) == IF creds THEN {"ok", "http_error", "exception"} ELSE {"skipped"}

\* (mutant) requests.post outside the try statement
SendRaises_Transport(outcome) == outcome = "exception"

\* send_tg, lines 93-98: which of its outcomes leave send_tg as an exception
SendRaises(outcome) == FALSE

\* (mutant) the capture is not guarded: its exception replaces the original
Reraised_Capture(orig, capture) == IF capture.raised THEN capture ELSE orig

\* lines 256-264: the exception that leaves the handler, given the one that
\* entered it and the one the diagnostic capture raised (if any)
Reraised(orig, capture) == orig

\* lines 252, 256: where a failing save_snapshot takes the run
AfterSaveFailure == "except"

\* (mutant) the toggle is not consulted
Propagates_Always(fail_on_error) == TRUE

\* lines 276-280: does __main__ let the exception through
Propagates(fail_on_error) == fail_on_error

-----------------------------------------------------------------------------
(* The process *)

Init ==
    /\ pc = "main"
    /\ env \in Envs
    /\ stateFile = NoFile
    /\ driver = "none"
    /\ html = NoPage
    /\ slots = <<>>
    /\ has_free = FALSE
    /\ snapshot = <<>>
    /\ last = <<>>
    /\ changed = FALSE
    /\ tg = NoTg
    /\ exc = NoExc
    /\ events = <<>>
    /\ exitCode = "running"
    /\ prev = NoPrev
    /\ hist = <<>>

\* lines 271-275: log RUN START, read FAIL_ON_ERROR, call one_check_run
main_start ==
    /\ pc = "main"
    /\ pc' = "make_driver"
    /\ events' = Append(events, "run_start")
    /\ UNCHANGED <<env, stateFile, driver, html, slots, has_free, snapshot, last,
                   changed, tg, exc, exitCode, prev, hist>>

\* line 219: driver = make_driver(), before the try statement
make_driver ==
    /\ pc = "make_driver"
    /\ \/ /\ driver' = "open"
          /\ pc' = "login"
          /\ events' = Append(events, "make_driver")
          /\ exc' = exc
       \/ /\ driver' = driver
          /\ exc' = Raise("WebDriverException", "make_driver")
          /\ pc' = "main_except"
          /\ events' = events
    /\ UNCHANGED <<env, stateFile, html, slots, has_free, snapshot, last,
                   changed, tg, exitCode, prev, hist>>

\* line 221: login(driver)
login ==
    /\ pc = "login"
    /\ \/ /\ pc' = "page_source"
          /\ exc' = exc
       \/ /\ exc' = Raise("WebDriverException", "login")
          /\ pc' = "except"
    /\ events' = Append(events, "login")
    /\ UNCHANGED <<env, stateFile, driver, html, slots, has_free, snapshot, last,
                   changed, tg, exitCode, prev, hist>>

\* lines 223-225: html = driver.page_source, written to page.html
page_source ==
    /\ pc = "page_source"
    /\ \/ /\ html' \in Pages
          /\ pc' = "parse"
          /\ exc' = exc
       \/ /\ html' = html
          /\ exc' = Raise("WebDriverException", "page_source")
          /\ pc' = "except"
    /\ events' = Append(events, "page_source")
    /\ UNCHANGED <<env, stateFile, driver, slots, has_free, snapshot, last,
                   changed, tg, exitCode, prev, hist>>

\* lines 227-239: slots, has_free, the log of the free dates, snapshot
parse ==
    /\ pc = "parse"
    /\ slots' = parse_slots_from_html(html)
    /\ has_free' = HasFree(slots')
    /\ snapshot' = json_dumps(slots')
    /\ pc' = "load"
    /\ events' = Append(events, "parse")
    /\ UNCHANGED <<env, stateFile, driver, html, last, changed, tg, exc,
                   exitCode, prev, hist>>

\* line 240: last = load_last_snapshot(); only FileNotFoundError is caught
\* there, so a file that exists and cannot be read or decoded raises
load ==
    /\ pc = "load"
    /\ \/ /\ last' = load_last_snapshot(stateFile)
          /\ pc' = "compare"
          /\ exc' = exc
       \/ /\ stateFile.exists
          /\ last' = last
          /\ exc' = Raise("OSError", "load")
          /\ pc' = "except"
    /\ events' = Append(events, IF stateFile.exists THEN "load" ELSE "load_absent")
    /\ UNCHANGED <<env, stateFile, driver, html, slots, has_free, snapshot,
                   changed, tg, exitCode, prev, hist>>

\* lines 242-243 and 253-254: the comparison and the choice of the branch
compare ==
    /\ pc = "compare"
    /\ changed' = Changed(snapshot, last)
    /\ pc' = Branch(changed', NotifyCond(has_free, env.ONLY_NOTIFY_WHEN_FREE))
    /\ events' = IF changed' THEN Append(events, "compare")
                  ELSE events \o <<"compare", "log_no_change">>
    /\ UNCHANGED <<env, stateFile, driver, html, slots, has_free, snapshot, last,
                   tg, exc, exitCode, prev, hist>>

\* lines 244-250 and 82-98: build the text and call send_tg
send_tg ==
    /\ pc = "send_tg"
    /\ \E outcome \in SendOutcomes(env.creds) :
          /\ tg' = [called |-> TRUE, outcome |-> outcome, text |-> Message(slots)]
          /\ IF SendRaises(outcome)
             THEN exc' = Raise("RequestException", "send_tg") /\ pc' = "except"
             ELSE exc' = exc /\ pc' = "save_snapshot"
    /\ events' = Append(events, "send_tg")
    /\ UNCHANGED <<env, stateFile, driver, html, slots, has_free, snapshot, last,
                   changed, exitCode, prev, hist>>

\* lines 252 and 77-79: save_snapshot(snapshot); nothing catches its failure
\* before the except clause of line 256
save ==
    /\ pc = "save_snapshot"
    /\ \/ /\ stateFile' = save_snapshot(snapshot)
          /\ pc' = "finally"
          /\ exc' = exc
          /\ events' = Append(events, "save_snapshot")
       \/ /\ stateFile' \in FailedSave(stateFile, snapshot)
          /\ pc' = AfterSaveFailure
          /\ exc' = IF AfterSaveFailure = "except"
                    THEN Raise("OSError", "save_snapshot") ELSE exc
          /\ events' = events \o <<"save_snapshot", "save_failed">>
    /\ UNCHANGED <<env, driver, html, slots, has_free, snapshot, last, changed,
                   tg, exitCode, prev, hist>>

\* (mutant) a handler that persists the snapshot of the failed run
except_handler_Persists ==
    /\ pc = "except"
    /\ stateFile' = [exists |-> TRUE, content |-> snapshot]
    /\ events' = events \o <<"log_fatal", "captured">>
    /\ pc' = "finally"
    /\ UNCHANGED <<env, driver, html, slots, has_free, snapshot, last,
                   changed, tg, exc, exitCode, prev, hist>>

\* lines 256-264: log FATAL, take the screenshot and the page source (a failure
\* of that is swallowed), raise
except_handler ==
    /\ pc = "except"
    /\ \E capture \in {NoExc, Raise("WebDriverException", "save_screenshot")} :
          /\ events' = events \o <<"log_fatal",
                                   IF capture.raised THEN "capture_failed" ELSE "captured">>
          /\ exc' = Reraised(exc, capture)
    /\ pc' = "finally"
    /\ UNCHANGED <<env, stateFile, driver, html, slots, has_free, snapshot, last,
                   changed, tg, exitCode, prev, hist>>

\* (mutant) the driver is released at the end of the try block only
finally_quit_OnlyOnSuccess ==
    /\ pc = "finally"
    /\ driver' = IF exc.raised THEN driver ELSE "quit"
    /\ events' = IF exc.raised THEN events ELSE Append(events, "quit")
    /\ pc' = IF exc.raised THEN "main_except" ELSE "main_finally"
    /\ UNCHANGED <<env, stateFile, html, slots, has_free, snapshot, last,
                   changed, tg, exc, exitCode, prev, hist>>

\* lines 265-266: driver.quit(), then return or let the exception go on
finally_quit ==
    /\ pc = "finally"
    /\ driver' = "quit"
    /\ events' = Append(events, "quit")
    /\ pc' = IF exc.raised THEN "main_except" ELSE "main_finally"
    /\ UNCHANGED <<env, stateFile, html, slots, has_free, snapshot, last,
                   changed, tg, exc, exitCode, prev, hist>>

\* lines 276-280: raise again, or log the suppressed failure
main_except ==
    /\ pc = "main_except"
    /\ IF Propagates(env.fail_on_error)
       THEN exc' = exc /\ events' = Append(events, "main_reraise")
       ELSE exc' = NoExc /\ events' = Append(events, "main_suppressed")
    /\ pc' = "main_finally"
    /\ UNCHANGED <<env, stateFile, driver, html, slots, has_free, snapshot, last,
                   changed, tg, exitCode, prev, hist>>

\* lines 281-282: log RUN END; the process ends
main_finally ==
    /\ pc = "main_finally"
    /\ events' = Append(events, "run_end")
    /\ exitCode' = IF exc.raised THEN "error" ELSE "ok"
    /\ pc' = "exit"
    /\ UNCHANGED <<env, stateFile, driver, html, slots, has_free, snapshot, last,
                   changed, tg, exc, prev, hist>>

\* A new process: the module is loaded again, STATE_FILE is what it was
NewProcess ==
    /\ pc = "exit"
    /\ pc' = "main"
    /\ env' \in Envs
    /\ prev' = [exists |-> TRUE, html |-> html,
                ended |-> IF RunFailed THEN "failed" ELSE "ok"]
    /\ driver' = "none"
    /\ html' = NoPage
    /\ slots' = <<>>
    /\ has_free' = FALSE
    /\ snapshot' = <<>>
    /\ last' = <<>>
    /\ changed' = FALSE
    /\ tg' = NoTg
    /\ exc' = NoExc
    /\ events' = <<>>
    /\ exitCode' = "running"
    /\ UNCHANGED stateFile

\* The scheduler starts the script again
invoke == NewProcess /\ UNCHANGED hist

Next ==
    \/ main_start
    \/ make_driver
    \/ login
    \/ page_source
    \/ parse
    \/ load
    \/ compare
    \/ send_tg
    \/ save
    \/ except_handler
    \/ finally_quit
    \/ main_except
    \/ main_finally
    \/ invoke

Spec == Init /\ [][Next]_vars

-----------------------------------------------------------------------------
(* Properties *)

\* The steps of one_check_run inside its try statement that can raise
TrySteps == {"login", "page_source", "load", "save_snapshot"}

\* A dispatch is attempted in this run: send_tg is about to be or was called
DispatchAttempted == pc = "send_tg" \/ tg.called

\* The outcomes of send_tg in which no message was delivered
DispatchFailures == {"skipped", "http_error", "exception"}

\* The RecordSets extraction yields for the pages, and the one a stored text encodes
RecordSets == {parse_slots_from_html(p) : p \in Pages}

IsSnapshot(l) == \E r \in RecordSets : json_dumps(r) = l

Decode(l) == CHOOSE r \in RecordSets : json_dumps(r) = l

FreeRecords(r) == {r[i] : i \in {j \in 1..Len(r) : r[j].status = Svobodno}}

\* This run follows a run on the same markup
SameMarkupAgain == prev.exists /\ prev.html = html /\ Did("compare")

C2_NotifyPolicy ==
    (Did("compare") /\ changed) =>
        (DispatchAttempted <=> (HasFree(slots) \/ ~env.ONLY_NOTIFY_WHEN_FREE))

C2_Witness ==
    /\ Did("compare") /\ changed /\ tg.called
    /\ ~HasFree(slots) /\ ~env.ONLY_NOTIFY_WHEN_FREE

FirstRunNoFree ==
    Did("load_absent") /\ Did("compare") /\ ~HasFree(slots) /\ env.ONLY_NOTIFY_WHEN_FREE

C6_SaveFailureSwallowed ==
    Did("save_failed") =>
        (pc # "except" /\ ~exc.raised /\ ~Did("log_fatal") /\ ~RunFailed)

C9_FailOnError ==
    /\ DefaultEnv.fail_on_error
    /\ pc = "exit" =>
          /\ Did("run_end")
          /\ RunFailed => ((exitCode = "error" /\ exc.raised) <=> env.fail_on_error)
          /\ (RunFailed /\ ~env.fail_on_error) =>
                (exitCode = "ok" /\ ~exc.raised /\ Did("main_suppressed"))
          /\ ~RunFailed => exitCode = "ok"

C9_Witness ==
    pc = "exit" /\ RunFailed /\ ~env.fail_on_error /\ exitCode = "ok" /\ Did("log_fatal")

\* C10 as stated: with ONLY_NOTIFY_WHEN_FREE enabled, a run dispatches a
\* message only if its RecordSet holds a free record that was not a free
\* record of the previously persisted RecordSet.
C10_OnlyNewFreeDates ==
    (tg.called /\ env.ONLY_NOTIFY_WHEN_FREE) =>
        \E r \in FreeRecords(slots) :
            ~(IsSnapshot(last) /\ r \in FreeRecords(Decode(last)))

-----------------------------------------------------------------------------
(* The extractor and the formatter on their own: parse_slots_from_html on  *)
(* the markup samples, format_slots on the record samples.                 *)

MaxNodes == 2

MaxSlots == 2

\* Texts of matched day nodes: empty, with each positive phrase, with each
\* negative phrase, with no phrase, with nothing but a phrase
NodeTexts ==
    { <<>>,
      <<"16 oct", " ", "Est_mesta">>,
      <<"16 oct", " ", "Zapisatsya">>,
      <<"16 oct", " ", "Svobodn", "o">>,
      <<"17 oct", " ", "Svobodn", "yh_", "mest_net">>,
      <<"17 oct", " ", "mest_net">>,
      <<"17 oct">>,
      <<"Est_mesta">> }

\* Visible texts of pages without day nodes
BodyTexts ==
    { <<>>,
      <<"Zapis", "\n", "Zapisatsya">>,
      <<"Zapis", "\n", "Est_mesta">>,
      <<"Zapis", "\n", "Svobodn", "o">>,
      <<"Svobodn", "yh_", "mest_net">>,
      <<"Zapis", "\n", "zakryta">> }

MarkupSamples ==
    {[day_nodes |-> c, text |-> t] :
        c \in UNION {[1..n -> NodeTexts] : n \in 1..MaxNodes},
        t \in {<<>>, <<"Zapis", "\n", "Zapisatsya">>}}
    \cup {[day_nodes |-> <<>>, text |-> t] : t \in BodyTexts}

RecordSamples ==
    UNION {[1..n -> [date : {<<>>, <<" ">>, <<"16 oct">>, <<"17 oct">>},
                     status : {Svobodno, NetMest}]] : n \in 0..MaxSlots}

PureInit ==
    /\ \/ pc = "parse" /\ html \in MarkupSamples /\ slots = <<>>
       \/ pc = "format" /\ html = NoPage /\ slots \in RecordSamples
    /\ env = DefaultEnv
    /\ stateFile = NoFile
    /\ driver = "open"
    /\ has_free = FALSE
    /\ snapshot = <<>>
    /\ last = <<>>
    /\ changed = FALSE
    /\ tg = NoTg
    /\ exc = NoExc
    /\ events = <<>>
    /\ exitCode = "running"
    /\ prev = NoPrev
    /\ hist = <<>>

\* lines 247, 187-204: format_slots(slots, only_available=True)
format ==
    /\ pc = "format"
    /\ tg' = [NoTg EXCEPT !.text = format_slots(slots, TRUE)]
    /\ pc' = "formatted"
    /\ UNCHANGED <<env, stateFile, driver, html, slots, has_free, snapshot, last,
                   changed, exc, events, exitCode, prev, hist>>

NextPure ==
    \/ parse
    \/ format

SpecPure == PureInit /\ [][NextPure]_vars

\* The matched nodes that yield a record, in document order
NonEmptyNodes(nodes) == SelectSeq(nodes, LAMBDA t : t # <<>>)

\* The positive-availability keywords, and the explicit negative phrases
Positive(t) == Contains(t, EstMesta) \/ Contains(t, Zapisatsya) \/ Contains(t, Svobodn)

Negative(t) == Contains(t, SvobodnyhMestNet) \/ Contains(t, MestNet)

WithoutNegative(t) == Replace(Replace(t, SvobodnyhMestNet), MestNet)

\* C11 as stated: in the card tier a positive keyword yields "Свободно", an
\* explicit negative phrase yields "Нет мест", a card with neither yields
\* "Нет мест"; a card whose only phrase is the negative one is never free.
C11_StatusDerivation ==
    (pc = "load" /\ html.day_nodes # <<>>) =>
        \A i \in 1..Len(slots) :
            LET t == NonEmptyNodes(html.day_nodes)[i]
            IN  slots[i].status =
                    IF Positive(WithoutNegative(t)) THEN Svobodno ELSE NetMest

\* C12 as stated: when no day node matches, extraction yields exactly one
\* record with an empty date, free iff the page text contains a keyword of the
\* positive keyword set of the card tier.
C12_FallbackTier ==
    (pc = "load" /\ html.day_nodes = <<>>) =>
        slots = <<[date |-> <<>>,
                   status |-> IF Positive(html.text) THEN Svobodno ELSE NetMest]>>

\* The lines of a text, split at the line feeds
RECURSIVE SplitLines(_)
SplitLines(t) ==
    IF \A i \in 1..Len(t) : t[i] # "\n" THEN <<t>>
    ELSE LET k == CHOOSE i \in 1..Len(t) : t[i] = "\n" /\ \A j \in 1..(i - 1) : t[j] # "\n"
         IN  <<SubSeq(t, 1, k - 1)>> \o SplitLines(SubSeq(t, k + 1, Len(t)))

Blank(t) == \A i \in 1..Len(t) : t[i] \in WhiteSpace

\* C14: format_slots returns the sentinel when no record is free (the empty
\* RecordSet included); otherwise it returns one line per free record, in the
\* order of the RecordSet, none for the other records, whose label is the
\* stripped date or, when the date is empty or blank, the fallback literal, so
\* no label is blank; it does not raise.
C14_Formatter ==
    pc = "formatted" =>
        LET free  == SelectSeq(slots, LAMBDA r : r.status = Svobodno)
            lines == SplitLines(tg.text)
        IN  /\ ~exc.raised
            /\ free = <<>> => tg.text = NoFreeDates
            /\ free # <<>> =>
                  /\ Len(lines) = Len(free)
                  /\ \A k \in 1..Len(free) :
                        \E label \in {Strip(free[k].date), <<Svobodno>>} :
                           /\ lines[k] = <<"OK <b>">> \o label \o <<"</b>">>
                           /\ ~Blank(label)
                           /\ Blank(free[k].date) <=> label = <<Svobodno>>

C14_Witness ==
    /\ pc = "formatted"
    /\ slots = <<[date |-> <<" ">>, status |-> Svobodno],
                 [date |-> <<"17 oct">>, status |-> NetMest]>>
    /\ tg.text = <<"OK <b>", Svobodno, "</b>">>

\* C15: the fallback record is produced iff no node matches the selector; when
\* a node matches, the result is one record per matched node with non-empty
\* text, in document order, and nothing else, so it is empty, with no fallback
\* record, when every matched node has empty text.
C15_TierExclusivity ==
    pc = "load" =>
        /\ html.day_nodes = <<>> =>
              /\ slots = <<FallbackSlot(html.text)>>
              /\ slots[1].date = <<>>
        /\ html.day_nodes # <<>> =>
              LET nodes == NonEmptyNodes(html.day_nodes)
              IN  /\ Len(slots) = Len(nodes)
                  /\ \A i \in 1..Len(nodes) : slots[i] = CardSlot(nodes[i])
                  /\ nodes = <<>> => slots = <<>>

C15_Witness ==
    /\ pc = "load"
    /\ html = [day_nodes |-> << <<>>, <<>> >>, text |-> <<"Zapis", "\n", "Zapisatsya">>]
    /\ slots = <<>>

-----------------------------------------------------------------------------
(* Properties of the comparison, the store and the order of the steps *)

\* b holds the records of a in another order
Reordered(a, b) ==
    /\ Len(a) = Len(b) /\ a # b
    /\ \E f \in [1..Len(a) -> 1..Len(a)] :
          /\ \A i, j \in 1..Len(a) : f[i] = f[j] => i = j
          /\ \A i \in 1..Len(a) : b[i] = a[f[i]]

RunOver == pc \in {"main_except", "main_finally", "exit"}

\* C16: when a run ends normally (no exception leaves one_check_run),
\* STATE_FILE holds the snapshot of that run: it was equal to it already, or it
\* was just written; whatever the runs before, the configuration and the
\* outcome of the dispatch.
C16_EndOfRunStore ==
    (pc \in {"main_finally", "exit"} /\ ~RunFailed) =>
        /\ stateFile = [exists |-> TRUE, content |-> snapshot]
        /\ load_last_snapshot(stateFile) = snapshot
        /\ \/ ~changed /\ last = snapshot /\ ~Did("save_snapshot")
           \/ changed /\ Did("save_snapshot") /\ ~Did("save_failed")

C16_Witness ==
    /\ pc = "exit" /\ ~RunFailed /\ prev.exists /\ prev.ended = "failed"
    /\ changed /\ tg.called /\ tg.outcome = "http_error"
    /\ ~env.ONLY_NOTIFY_WHEN_FREE /\ ~HasFree(slots)
    /\ stateFile = [exists |-> TRUE, content |-> snapshot]

\* The run failed before load_last_snapshot was called
FailedBeforeDetection ==
    (exc.raised \/ RunFailed) /\ ~Did("load") /\ ~Did("load_absent")

\* C17: a run that fails while the page is acquired (before load and compare)
\* attempts no dispatch and never reaches save_snapshot; STATE_FILE changes in
\* no step but save_snapshot, so after the failed run it is what it was before
\* it, and the next run loads that value.
C17_FailureBeforeDetection ==
    /\ [](FailedBeforeDetection =>
             /\ ~DispatchAttempted
             /\ pc # "save_snapshot" /\ ~Did("save_snapshot")
             /\ exc.raised => exc.at \in {"make_driver", "login", "page_source"})
    /\ []((Did("compare") /\ ~Did("save_snapshot")) => last = load_last_snapshot(stateFile))
    /\ [][stateFile' # stateFile => pc = "save_snapshot"]_vars

C17_Witness ==
    /\ pc = "exit" /\ FailedBeforeDetection /\ Did("page_source")
    /\ prev.exists /\ prev.ended = "ok"
    /\ stateFile = [exists |-> TRUE, content |-> json_dumps(parse_slots_from_html(prev.html))]

\* What __main__ logs around one_check_run
MainEvents == {"run_start", "main_reraise", "main_suppressed", "run_end"}

\* C19: in a changed run that notifies, send_tg is called before save_snapshot
\* and never after it; and once one_check_run is over with the driver created
\* (normal end, unchanged end, failure with diagnostics and re-raise), the
\* driver was quit exactly once, after every other step of one_check_run.
C19_OrderAndRelease ==
    LET sends_saves == SelectSeq(events, LAMBDA e : e \in {"send_tg", "save_snapshot"})
        steps       == SelectSeq(events, LAMBDA e : e \notin MainEvents)
    IN  /\ sends_saves \in {<<>>, <<"send_tg">>, <<"save_snapshot">>,
                            <<"send_tg", "save_snapshot">>}
        /\ pc = "send_tg" => sends_saves = <<>>
        /\ pc = "save_snapshot" => sends_saves \in {<<>>, <<"send_tg">>}
        /\ ((pc = "save_snapshot" /\ sends_saves = <<>>) \/ sends_saves = <<"save_snapshot">>) =>
              ~(has_free \/ ~env.ONLY_NOTIFY_WHEN_FREE)
        /\ sends_saves # <<>> => changed
        /\ IF RunOver /\ driver # "none"
           THEN /\ driver = "quit"
                /\ steps[Len(steps)] = "quit"
                /\ \A i \in 1..(Len(steps) - 1) : steps[i] # "quit"
           ELSE \A i \in 1..Len(steps) : steps[i] # "quit"

C19_Witness ==
    /\ pc = "exit" /\ Did("send_tg") /\ Did("save_failed") /\ Did("log_fatal")
    /\ Did("quit") /\ events[Len(events) - 2] = "quit"

-----------------------------------------------------------------------------
(* Sequences of runs: every finished run is recorded, on two pages.         *)

MaxRuns == 3

PageA == [day_nodes |-> <<Free1>>, text |-> <<>>]
PageB == [day_nodes |-> <<Busy2>>, text |-> <<>>]

HistPages == {PageA, PageB}

\* What is kept of a finished run: the page, whether one_check_run ended
\* normally, whether send_tg was called, whether the comparison found a
\* difference that is to be notified, and the same for the snapshot against
\* STATE_FILE as the run found it (compared or not)
RunRecord ==
    LET notify  == HasFree(slots) \/ ~env.ONLY_NOTIFY_WHEN_FREE
        differs == IF Did("compare") THEN snapshot # last
                   ELSE Did("parse") /\ snapshot # load_last_snapshot(stateFile)
    IN  [html   |-> html,
         ok     |-> ~RunFailed,
         sent   |-> tg.called,
         due    |-> Did("compare") /\ snapshot # last /\ notify,
         differs_due |-> differs /\ notify]

\* The scheduler starts the script again, and the finished run is recorded
invoke_recorded ==
    /\ Len(hist) < MaxRuns
    /\ NewProcess
    /\ hist' = Append(hist, RunRecord)

NextHist ==
    \/ main_start
    \/ make_driver
    \/ login
    \/ page_source /\ html' \in HistPages \cup {NoPage}
    \/ parse
    \/ load
    \/ compare
    \/ send_tg
    \/ save
    \/ except_handler
    \/ finally_quit
    \/ main_except
    \/ main_finally
    \/ invoke_recorded

SpecHist == Init /\ [][NextHist]_vars

NumberOf(flag(_)) == Cardinality({i \in 1..Len(hist) : flag(hist[i])})

====
